---- MODULE Spec2Model ----
(***************************************************************************)
(* Model of src/source/index.ts: the serial-number reconciliation run.     *)
(*                                                                         *)
(* main() is one async function.  Its code is cut at the awaits: each      *)
(* action below is the code that runs between two awaits, and the remote   *)
(* service answers the pending request in a step of its own.               *)
(*                                                                         *)
(* Strings that the program inspects (lines of the input file, service     *)
(* tags) are sequences of one-character strings, so that trim() is         *)
(* computed.  Tokens are only tested for truthiness and passed on; they    *)
(* are TLA+ strings, with Null standing for the JavaScript null.           *)
(* A JavaScript Map is the sequence of its entries <<key, value>> in       *)
(* insertion order.                                                        *)
(***************************************************************************)
EXTENDS Integers, Sequences, FiniteSets, TLC

\* Bounds of the model.
MaxLines == 2        \* lines of the input file
MaxFetch == 2        \* getInventoryReport calls in one run
MaxRecs == 2         \* rows in the hosts section of one report page

Null == "null"
Tokens == {"T1", "T2"}
TokenOrNull == Tokens \cup {"", Null}

Whitespace == {" ", "\r"}
RawLines == {<<"A">>, <<" ", "B", "\r">>, <<>>}
Tags == {<<"B">>, <<>>}
Ids == {1, 2}

SeqsUpTo(S, n) == UNION {[1..k -> S] : k \in 0..n}

Last(s) == s[Len(s)]

(***************************************************************************)
(* JavaScript primitives used by the program.                              *)
(***************************************************************************)

TruthyUnlessEmpty(t) == t # ""

TruthyUnlessNull(t) == t # Null

\* ToBoolean of a string-or-null: `!token`, `while (nextToken)`.
Truthy(t) == t # Null /\ t # ""

RECURSIVE TrimStart(_)
TrimStart(s) ==
    IF s # <<>> /\ Head(s) \in Whitespace THEN TrimStart(Tail(s)) ELSE s

RECURSIVE TrimEnd(_)
TrimEnd(s) ==
    IF s # <<>> /\ Last(s) \in Whitespace
    THEN TrimEnd(SubSeq(s, 1, Len(s) - 1))
    ELSE s

\* String.prototype.trim
Trim(s) == TrimEnd(TrimStart(s))

\* Map.prototype.has / get / set on a sequence of entries.
MapHas(m, k) == \E i \in 1..Len(m) : m[i][1] = k

MapGetFirst(m, k) == m[1][2]

MapGet(m, k) == m[CHOOSE i \in 1..Len(m) : m[i][1] = k][2]

MapSetKeepFirst(m, k, v) ==
    IF MapHas(m, k) THEN m ELSE Append(m, <<k, v>>)

MapSet(m, k, v) ==
    IF MapHas(m, k)
    THEN [i \in 1..Len(m) |-> IF m[i][1] = k THEN <<k, v>> ELSE m[i]]
    ELSE Append(m, <<k, v>>)

(***************************************************************************)
(* The environment: the input file and the answers of the remote service.  *)
(***************************************************************************)

\* The file at csvFilePath: unreadable, or its lines.  split('\n') returns
\* at least one element, also for an empty file.
CsvFiles ==
    {[readable |-> FALSE, lines |-> <<>>]} \cup
    {[readable |-> TRUE, lines |-> l] : l \in SeqsUpTo(RawLines, MaxLines) \ {<<>>}}

NoRequest == [op |-> "none", hostIds |-> <<>>, token |-> Null]

\* What getInventoryReport can return: null, a body that is no object, or an
\* object whose hosts section may be missing.
NullReport == [kind |-> "null", hasHosts |-> FALSE, hosts |-> <<>>, token |-> Null]

ScalarReport == [kind |-> "scalar", hasHosts |-> FALSE, hosts |-> <<>>, token |-> Null]

HostRows == [hostId : Ids, serviceTag : Tags]

ObjectReports ==
    {[kind |-> "object", hasHosts |-> FALSE, hosts |-> <<>>, token |-> t] :
        t \in TokenOrNull}
    \cup
    {[kind |-> "object", hasHosts |-> TRUE, hosts |-> h, token |-> t] :
        h \in SeqsUpTo(HostRows, MaxRecs), t \in TokenOrNull}

NoResponse ==
    [for |-> "none", ok |-> FALSE, hosts |-> <<>>, token |-> Null, data |-> NullReport]

HostsResponses ==
    {[for |-> "getHosts", ok |-> o, hosts |-> h, token |-> Null, data |-> NullReport] :
        o \in BOOLEAN, h \in {<<>>, <<[id |-> 1], [id |-> 2]>>}}

ReportResponses ==
    {[for |-> "requestReport", ok |-> o, hosts |-> <<>>, token |-> t, data |-> NullReport] :
        o \in BOOLEAN, t \in TokenOrNull}

PageResponses ==
    {[for |-> "fetchPage", ok |-> FALSE, hosts |-> <<>>, token |-> Null, data |-> NullReport]}
    \cup
    {[for |-> "fetchPage", ok |-> TRUE, hosts |-> <<>>, token |-> Null, data |-> d] :
        d \in ObjectReports \cup {ScalarReport}}

(***************************************************************************)
(* The functions of index.ts.                                              *)
(***************************************************************************)

readFileOrBlankLine(f) ==
    IF f.readable
    THEN [i \in 1..Len(f.lines) |-> Trim(f.lines[i])]
    ELSE <<<<>>>>

readFileAndParseToArray(f) ==
    IF f.readable
    THEN [i \in 1..Len(f.lines) |-> Trim(f.lines[i])]
    ELSE <<>>

getHostsDespiteError(r) == [i \in 1..Len(r.hosts) |-> r.hosts[i].id]

getHosts(r) ==
    IF r.ok THEN [i \in 1..Len(r.hosts) |-> r.hosts[i].id] ELSE <<>>

requestInventoryReport(r) == IF r.ok THEN r.token ELSE Null

getInventoryReport(r) == IF r.ok THEN r.data ELSE NullReport

\* Lines 114-117: every row of the page is put into the map, in key order.
RECURSIVE SetAll(_, _)
SetAll(m, rows) ==
    IF rows = <<>>
    THEN m
    ELSE SetAll(MapSet(m, Head(rows).serviceTag, Head(rows).hostId), Tail(rows))

\* Line 118.
TokenAfterStale(report, tok) == tok

TokenAfter(report, tok) == report.token

\* Lines 113-121, one pass of the loop body on the value getInventoryReport
\* returned.  Object.keys(undefined) throws a TypeError.
LoopBodyDropsOnError(report, m, tok) ==
    IF report.kind = "object"
    THEN IF report.hasHosts
         THEN [threw |-> FALSE, map |-> SetAll(m, report.hosts),
               token |-> TokenAfter(report, tok)]
         ELSE [threw |-> TRUE, map |-> m, token |-> tok]
    ELSE [threw |-> FALSE, map |-> <<>>, token |-> Null]

LoopBody(report, m, tok) ==
    IF report.kind = "object"
    THEN IF report.hasHosts
         THEN [threw |-> FALSE, map |-> SetAll(m, report.hosts),
               token |-> TokenAfter(report, tok)]
         ELSE [threw |-> TRUE, map |-> m, token |-> tok]
    ELSE [threw |-> FALSE, map |-> m, token |-> Null]

RECURSIVE ReconcileNotFoundOnce(_, _, _, _)
ReconcileNotFoundOnce(ss, m, filtered, notFound) ==
    IF ss = <<>>
    THEN [filtered |-> filtered, notFound |-> notFound]
    ELSE IF MapHas(m, Head(ss))
         THEN ReconcileNotFoundOnce(Tail(ss), m,
                                    MapSet(filtered, MapGet(m, Head(ss)), Head(ss)),
                                    notFound)
         ELSE ReconcileNotFoundOnce(Tail(ss), m, filtered,
                                    IF \E i \in 1..Len(notFound) : notFound[i] = Head(ss)
                                    THEN notFound
                                    ELSE Append(notFound, Head(ss)))

\* Lines 139-150: the reconciliation pass over the serials.
RECURSIVE Reconcile(_, _, _, _)
Reconcile(ss, m, filtered, notFound) ==
    IF ss = <<>>
    THEN [filtered |-> filtered, notFound |-> notFound]
    ELSE IF MapHas(m, Head(ss))
         THEN Reconcile(Tail(ss), m, MapSet(filtered, MapGet(m, Head(ss)), Head(ss)),
                        notFound)
         ELSE Reconcile(Tail(ss), m, filtered, Append(notFound, Head(ss)))

\* A file written through a write stream: the header line, then the rows.
\* A row `${a},${b}\n` is the pair <<a, b>>.
NoFile == [exists |-> FALSE, header |-> "", rows |-> <<>>]

CsvFile(h, r) == [exists |-> TRUE, header |-> h, rows |-> r]

InventoryRows(m) == [i \in 1..Len(m) |-> <<m[i][1], m[i][2]>>]

MatchedRows(f) == [i \in 1..Len(f) |-> <<f[i][1], f[i][2]>>]

NotFoundRows(n) == [i \in 1..Len(n) |-> <<n[i]>>]

\* Line 103.
ReturnsEarlyNever(token) == FALSE

ReturnsEarly(token) == ~Truthy(token)

(***************************************************************************)
(* The state of a run.                                                     *)
(***************************************************************************)
VARIABLES
    pc,                   \* where main() is suspended or has ended
    csvFile,              \* the input file on disk
    serials,              \* const serials
    reqToken,             \* const token
    nextToken,            \* let nextToken
    inventoryMap,         \* Map<string, number>
    inventoryMapFiltered, \* Map<number, string>
    inventoryNotFound,    \* string[]
    csvObtenido,          \* InventoryObtenido.csv
    csvInventory,         \* Inventory.csv
    csvNotFound,          \* InventoryNotFound.csv
    request,              \* the remote request main() is awaiting
    response,             \* the service's answer to it, not yet consumed
    fetchCalls,           \* history: the tokens passed to getInventoryReport
    fetched,              \* history: what getInventoryReport returned, rows left out
    issued,               \* history: the remote calls made, in order
    resolved              \* history: how many of them main() has seen resolve

vars ==
    <<pc, csvFile, serials, reqToken, nextToken, inventoryMap, inventoryMapFiltered,
      inventoryNotFound, csvObtenido, csvInventory, csvNotFound, request, response,
      fetchCalls, fetched, issued, resolved>>

outputs ==
    <<inventoryMapFiltered, inventoryNotFound, csvObtenido, csvInventory, csvNotFound>>

Summary(report) ==
    [kind |-> report.kind, hasHosts |-> report.hasHosts, token |-> report.token]

Init ==
    /\ pc = "start"
    /\ csvFile \in CsvFiles
    /\ serials = <<>>
    /\ reqToken = Null
    /\ nextToken = Null
    /\ inventoryMap = <<>>
    /\ inventoryMapFiltered = <<>>
    /\ inventoryNotFound = <<>>
    /\ csvObtenido = NoFile
    /\ csvInventory = NoFile
    /\ csvNotFound = NoFile
    /\ request = NoRequest
    /\ response = NoResponse
    /\ fetchCalls = <<>>
    /\ fetched = <<>>
    /\ issued = <<>>
    /\ resolved = 0

\* An `await`: main() goes on only once the call it made has resolved.
AwaitedOrNot(op) == TRUE

Awaited(op) == response.for = op

\* Lines 96-99: read the serials, call getHosts.
Start ==
    /\ pc = "start"
    /\ serials' = readFileAndParseToArray(csvFile)
    /\ request' = [op |-> "getHosts", hostIds |-> <<>>, token |-> Null]
    /\ pc' = "getHosts"
    /\ issued' = Append(issued, "getHosts")
    /\ UNCHANGED <<csvFile, reqToken, nextToken, inventoryMap, outputs, response,
                   fetchCalls, fetched, resolved>>

\* The remote service answers the pending request, or the transport fails.
ServiceAnswers ==
    /\ request.op # "none"
    /\ response.for = "none"
    /\ response' \in CASE request.op = "getHosts" -> HostsResponses
                       [] request.op = "requestReport" -> ReportResponses
                       [] request.op = "fetchPage" -> PageResponses
    /\ UNCHANGED <<pc, csvFile, serials, reqToken, nextToken, inventoryMap, outputs,
                   request, fetchCalls, fetched, issued, resolved>>

\* Lines 99-102: getHosts resolves, requestInventoryReport is called.
GetHostsReturn ==
    /\ pc = "getHosts"
    /\ Awaited("getHosts")
    /\ resolved' = IF response.for = "getHosts" THEN resolved + 1 ELSE resolved
    /\ issued' = Append(issued, "requestReport")
    /\ request' = [op |-> "requestReport", hostIds |-> getHosts(response), token |-> Null]
    /\ response' = NoResponse
    /\ pc' = "requestReport"
    /\ UNCHANGED <<csvFile, serials, reqToken, nextToken, inventoryMap, outputs,
                   fetchCalls, fetched>>

\* Lines 124-169: the three files are written and the serials reconciled.
Finish(m) ==
    LET rec == Reconcile(serials, m, <<>>, <<>>) IN
    /\ csvObtenido' = CsvFile("serviceTag,hostId", InventoryRows(m))
    /\ inventoryMapFiltered' = rec.filtered
    /\ inventoryNotFound' = rec.notFound
    /\ csvInventory' = CsvFile("id,serviceTag", MatchedRows(rec.filtered))
    /\ csvNotFound' = CsvFile("serviceTag", NotFoundRows(rec.notFound))
    /\ request' = NoRequest
    /\ pc' = "done"
    /\ UNCHANGED <<fetchCalls, issued>>

LoopUntilEmpty(tok, m) ==
    IF tok # ""
    THEN /\ Len(fetchCalls) < MaxFetch
         /\ request' = [op |-> "fetchPage", hostIds |-> <<>>, token |-> tok]
         /\ fetchCalls' = Append(fetchCalls, tok)
         /\ issued' = Append(issued, "fetchPage")
         /\ pc' = "fetchPage"
         /\ UNCHANGED outputs
    ELSE Finish(m)

\* Line 111: the loop test, then either the next call (line 112) or the
\* code after the loop.
Loop(tok, m) ==
    IF Truthy(tok)
    THEN /\ Len(fetchCalls) < MaxFetch
         /\ request' = [op |-> "fetchPage", hostIds |-> <<>>, token |-> tok]
         /\ fetchCalls' = Append(fetchCalls, tok)
         /\ issued' = Append(issued, "fetchPage")
         /\ pc' = "fetchPage"
         /\ UNCHANGED outputs
    ELSE Finish(m)

\* Lines 102-112: requestInventoryReport resolves.
RequestReportReturn ==
    /\ pc = "requestReport"
    /\ Awaited("requestReport")
    /\ resolved' = IF response.for = "requestReport" THEN resolved + 1 ELSE resolved
    /\ LET token == requestInventoryReport(response) IN
       /\ reqToken' = token
       /\ IF ReturnsEarly(token)
          THEN /\ pc' = "aborted"
               /\ request' = NoRequest
               /\ UNCHANGED <<nextToken, inventoryMap, outputs, fetchCalls, issued>>
          ELSE /\ inventoryMap' = <<>>
               /\ nextToken' = token
               /\ Loop(token, <<>>)
    /\ response' = NoResponse
    /\ UNCHANGED <<csvFile, serials, fetched>>

\* Lines 112-122 and on: getInventoryReport resolves.
FetchPageReturn ==
    /\ pc = "fetchPage"
    /\ Awaited("fetchPage")
    /\ resolved' = IF response.for = "fetchPage" THEN resolved + 1 ELSE resolved
    /\ LET report == getInventoryReport(response)
           body == LoopBody(report, inventoryMap, nextToken)
       IN  /\ fetched' = Append(fetched, Summary(report))
           /\ inventoryMap' = body.map
           /\ nextToken' = body.token
           /\ IF body.threw
              THEN /\ pc' = "caught"
                   /\ request' = NoRequest
                   /\ UNCHANGED <<outputs, fetchCalls, issued>>
              ELSE Loop(body.token, body.map)
    /\ response' = NoResponse
    /\ UNCHANGED <<csvFile, serials, reqToken>>

Next ==
    \/ Start
    \/ ServiceAnswers
    \/ GetHostsReturn
    \/ RequestReportReturn
    \/ FetchPageReturn

Spec == Init /\ [][Next]_vars

(***************************************************************************)
(* Properties.                                                             *)
(***************************************************************************)

matched == csvInventory.rows

unmatched == csvNotFound.rows

Occurrences(s, x) == Cardinality({i \in 1..Len(s) : s[i] = x})

SerialColumn(rows) == [i \in 1..Len(rows) |-> rows[i][2]]

TokenReceived == pc \notin {"start", "getHosts", "requestReport"}

AllFilesWritten == csvObtenido.exists /\ csvInventory.exists /\ csvNotFound.exists

NoFileWritten == ~csvObtenido.exists /\ ~csvInventory.exists /\ ~csvNotFound.exists

\* C1: after reconciliation every input entry is in exactly one of matched
\* and unmatched, and the two outputs together have as many rows as the
\* input has entries.
C1_Partition ==
    pc = "done" =>
        /\ Len(matched) + Len(unmatched) = Len(serials)
        /\ \A i \in 1..Len(serials) :
               Occurrences(SerialColumn(matched), serials[i]) > 0
                   <=> Occurrences(unmatched, <<serials[i]>>) = 0

\* C2: a serial that is in the InventoryMap and occurs n times in the input
\* occurs n times in the matched output.
C2_DuplicatesKept ==
    pc = "done" =>
        \A i \in 1..Len(serials) :
            MapHas(inventoryMap, serials[i]) =>
                Occurrences(SerialColumn(matched), serials[i])
                    = Occurrences(serials, serials[i])

\* C3: of two different found input serials, the one that appears first in
\* the input has its row before the row of the other in the matched output.
C3_MatchedKeepsInputOrder ==
    pc = "done" =>
        \A i, j \in 1..Len(serials) :
            ( /\ i < j
              /\ serials[i] # serials[j]
              /\ MapHas(inventoryMap, serials[i])
              /\ MapHas(inventoryMap, serials[j])
              /\ \A h \in 1..(j - 1) : serials[h] # serials[j] )
            => \E p, q \in 1..Len(matched) :
                   /\ p < q
                   /\ matched[p][2] = serials[i]
                   /\ matched[q][2] = serials[j]

PagesWellFormed ==
    \A i \in 1..Len(fetched) : fetched[i].kind = "object" /\ fetched[i].hasHosts

\* C4: when every page received is well formed and the k-th is the first
\* whose nextToken is null, exactly k getInventoryReport calls have been made
\* and none is pending.
C4_PaginationTerminates ==
    \A k \in 1..Len(fetched) :
        ( /\ PagesWellFormed
          /\ fetched[k].token = Null
          /\ \A i \in 1..(k - 1) : fetched[i].token # Null )
        => /\ Len(fetchCalls) = k
           /\ Len(fetched) = k
           /\ request.op = "none"
           /\ pc = "done"

C4_Witness ==
    /\ pc = "done"
    /\ PagesWellFormed
    /\ Len(fetched) = 2
    /\ fetched[1].token # Null
    /\ fetched[2].token = Null
    /\ Len(fetchCalls) = 2

\* C5: the first getInventoryReport call gets the token requestInventoryReport
\* returned, every later call gets the nextToken of the response right before
\* it, and a page's truthy nextToken is always passed to a next call.
C5_TokenChaining ==
    /\ Len(fetched) <= Len(fetchCalls)
    /\ Len(fetchCalls) <= Len(fetched) + 1
    /\ Len(fetchCalls) >= 1 => fetchCalls[1] = reqToken
    /\ \A i \in 2..Len(fetchCalls) :
           /\ fetched[i - 1].kind = "object"
           /\ fetchCalls[i] = fetched[i - 1].token
    /\ \A i \in 1..Len(fetched) :
           (fetched[i].kind = "object" /\ fetched[i].hasHosts /\ Truthy(fetched[i].token))
               => Len(fetchCalls) > i

C5_Witness ==
    /\ Len(fetchCalls) = 2
    /\ fetchCalls[1] = "T1"
    /\ fetchCalls[2] = "T2"
    /\ Len(fetched) = 2

FetchFailed == fetched # <<>> /\ Last(fetched).kind = "null"

\* C6: when getInventoryReport returns null the loop ends there: no further
\* call is made, the InventoryMap is what it was, and the run ends with the
\* three files written from that InventoryMap.
C6_FetchFailureDegrades ==
    /\ [](FetchFailed =>
            /\ pc = "done"
            /\ request.op = "none"
            /\ Len(fetchCalls) = Len(fetched)
            /\ AllFilesWritten
            /\ csvObtenido.rows = InventoryRows(inventoryMap)
            /\ Len(unmatched) = Cardinality({i \in 1..Len(serials) :
                                                ~MapHas(inventoryMap, serials[i])}))
    /\ [][(~FetchFailed /\ FetchFailed') =>
            /\ inventoryMap' = inventoryMap
            /\ fetchCalls' = fetchCalls]_vars
    /\ [][FetchFailed => UNCHANGED <<fetchCalls, fetched, inventoryMap, outputs>>]_vars

C6_Witness ==
    /\ FetchFailed
    /\ Len(fetched) = 2
    /\ pc = "done"
    /\ Len(csvObtenido.rows) = 2

HostsAbsent ==
    fetched # <<>> /\ Last(fetched).kind = "object" /\ ~Last(fetched).hasHosts

\* C7: when a page comes without its hosts section the pagination ends and
\* the run still ends with the three files written.
C7_HostsAbsentDegrades ==
    HostsAbsent => pc = "done" /\ AllFilesWritten

\* C8: when requestInventoryReport returns null the run aborts: no
\* getInventoryReport call is made and no reconciliation pass is run.
C8_NullTokenAborts ==
    (TokenReceived /\ reqToken = Null) =>
        /\ pc = "aborted"
        /\ fetchCalls = <<>>
        /\ request.op = "none"
        /\ inventoryMapFiltered = <<>>
        /\ inventoryNotFound = <<>>

C8_Witness ==
    /\ pc = "aborted"
    /\ reqToken = Null
    /\ response.for = "none"

\* C9 as stated: when requestInventoryReport returns null the inventory
\* snapshot is still written, with its header only.
C9_SnapshotWrittenEmpty ==
    (TokenReceived /\ reqToken = Null) =>
        /\ csvObtenido.exists
        /\ csvObtenido.header = "serviceTag,hostId"
        /\ csvObtenido.rows = <<>>

\* C9 amended: when requestInventoryReport returns null no output file is
\* written: neither the inventory snapshot nor the matched nor the unmatched
\* file exists at the end of the run.
C9_NoFileOnAbort ==
    (TokenReceived /\ reqToken = Null) => NoFileWritten

C9_Witness ==
    /\ pc = "aborted"
    /\ reqToken = Null
    /\ Len(serials) = 2
    /\ NoFileWritten

Lookup(m, t) == IF MapHas(m, t) THEN MapGet(m, t) ELSE 0

LastRowOf(rows, t) ==
    LET at == {i \in 1..Len(rows) : rows[i].serviceTag = t}
    IN  rows[CHOOSE i \in at : \A j \in at : j <= i]

PageArriving ==
    /\ pc = "fetchPage"
    /\ response.for = "fetchPage"
    /\ response.ok
    /\ response.data.kind = "object"
    /\ response.data.hasHosts

\* C10: the InventoryMap is empty before the first page and every page
\* fetched is merged into it with last-write-wins: a serial the page reports
\* maps to the id of the page's last row for it, any other serial keeps its
\* id, no serial is held twice; a failed fetch changes nothing.
C10_LastWriteWins ==
    /\ [](fetched = <<>> => inventoryMap = <<>>)
    /\ [](\A i, j \in 1..Len(inventoryMap) :
              inventoryMap[i][1] = inventoryMap[j][1] => i = j)
    /\ [][(PageArriving /\ Len(fetched') = Len(fetched) + 1) =>
            \A t \in Tags :
                Lookup(inventoryMap', t) =
                    IF \E i \in 1..Len(response.data.hosts) :
                           response.data.hosts[i].serviceTag = t
                    THEN LastRowOf(response.data.hosts, t).hostId
                    ELSE Lookup(inventoryMap, t)]_vars
    /\ [][(~PageArriving /\ Len(fetched') = Len(fetched) + 1) =>
            inventoryMap' = inventoryMap]_vars

C10_Witness ==
    /\ PageArriving
    /\ fetched # <<>>
    /\ response.data.token = Null
    /\ \E i \in 1..Len(response.data.hosts) :
           /\ MapHas(inventoryMap, response.data.hosts[i].serviceTag)
           /\ MapGet(inventoryMap, response.data.hosts[i].serviceTag)
                  # response.data.hosts[i].hostId

LoopStarted == fetchCalls # <<>>

\* A returned report after which the loop makes no further call.
EndsLoop(r) == r.kind # "object" \/ ~r.hasHosts \/ ~Truthy(r.token)

C12_Sequential ==
    /\ Len(issued) - resolved \in {0, 1}
    /\ Len(issued) - resolved = 1 <=> request.op # "none"
    /\ \A i \in 1..Len(issued) :
           issued[i] = CASE i = 1 -> "getHosts"
                         [] i = 2 -> "requestReport"
                         [] OTHER -> "fetchPage"
    /\ request.op # "none" => request.op = Last(issued)

C12_Witness ==
    /\ Len(issued) = 4
    /\ resolved = 3
    /\ request.op = "fetchPage"

HostsFailing == pc = "getHosts" /\ response.for = "getHosts" /\ ~response.ok

\* C13: when getHosts fails, the step that takes its result calls
\* requestInventoryReport with no device id; getHosts and
\* requestInventoryReport are each called at most once in a run.
C13_HostsFailureContinues ==
    /\ [](Occurrences(issued, "getHosts") <= 1
          /\ Occurrences(issued, "requestReport") <= 1)
    /\ [][(HostsFailing /\ pc' # pc) =>
            /\ request'.op = "requestReport"
            /\ request'.hostIds = <<>>
            /\ issued' = <<"getHosts", "requestReport">>]_vars

C13_Witness ==
    /\ HostsFailing
    /\ response.hosts # <<>>

\* C14: when the input file cannot be read the serials are empty, the remote
\* calls are still made, and a run that reaches the end writes no matched
\* and no unmatched row and the whole InventoryMap into the snapshot.
C14_ReadFailure ==
    ~csvFile.readable =>
        /\ serials = <<>>
        /\ pc # "start" => issued # <<>> /\ issued[1] = "getHosts"
        /\ pc = "done" =>
               /\ AllFilesWritten
               /\ matched = <<>>
               /\ unmatched = <<>>
               /\ csvObtenido.rows = InventoryRows(inventoryMap)
               /\ \A i \in 1..Len(inventoryMap) :
                      \E j \in 1..Len(csvObtenido.rows) :
                          csvObtenido.rows[j] = inventoryMap[i]

C14_Witness ==
    /\ ~csvFile.readable
    /\ pc = "done"
    /\ Len(csvObtenido.rows) = 2
    /\ Len(fetched) = 2

\* C15: an empty-string input entry is never matched: every one of them is
\* in the unmatched output and none in the matched output.
C15_EmptyNeverMatches ==
    pc = "done" =>
        /\ Occurrences(SerialColumn(matched), <<>>) = 0
        /\ Occurrences(unmatched, << <<>> >>) = Occurrences(serials, <<>>)

Absent(s) == ~MapHas(inventoryMap, s)

\* C16: the unmatched output is the input sequence with the keys of the
\* InventoryMap left out, order and duplicates kept.
C16_UnmatchedIsSubsequence ==
    pc = "done" =>
        /\ Len(unmatched) = Len(SelectSeq(serials, Absent))
        /\ \A i \in 1..Len(unmatched) :
               unmatched[i] = <<SelectSeq(serials, Absent)[i]>>

C16_Witness ==
    /\ pc = "done"
    /\ Len(unmatched) = 2
    /\ unmatched[1] = unmatched[2]
    /\ inventoryMap # <<>>

\* C17: every matched row (id, serial) has its serial in the input and the
\* InventoryMap maps that serial to that id.
C17_MatchedSound ==
    pc = "done" =>
        \A p \in 1..Len(matched) :
            /\ \E i \in 1..Len(serials) : serials[i] = matched[p][2]
            /\ MapHas(inventoryMap, matched[p][2])
            /\ \E e \in 1..Len(inventoryMap) :
                   inventoryMap[e] = <<matched[p][2], matched[p][1]>>

C17_Witness ==
    /\ pc = "done"
    /\ Len(matched) = 2
    /\ Len(inventoryMap) = 2
    /\ matched[1][1] = 2

\* The input positions whose serial is found and resolves to DeviceId d.
Resolving(d) ==
    {i \in 1..Len(serials) :
        \E e \in 1..Len(inventoryMap) : inventoryMap[e] = <<serials[i], d>>}

Min(S) == CHOOSE x \in S : \A y \in S : x <= y

Max(S) == CHOOSE x \in S : \A y \in S : y <= x

C19_EmptyTokenLikeNull ==
    /\ \A i \in 1..Len(fetchCalls) : fetchCalls[i] # "" /\ fetchCalls[i] # Null
    /\ (TokenReceived /\ reqToken \in {"", Null}) =>
           /\ pc = "aborted"
           /\ fetchCalls = <<>>
           /\ request.op = "none"
           /\ NoFileWritten
    /\ (fetched # <<>> /\ Last(fetched).kind = "object" /\ Last(fetched).hasHosts
            /\ Last(fetched).token \in {"", Null}) =>
           /\ pc = "done"
           /\ request.op = "none"
           /\ Len(fetchCalls) = Len(fetched)
           /\ AllFilesWritten

C19_Witness ==
    /\ pc = "done"
    /\ Len(fetched) = 2
    /\ Last(fetched).token = ""
    /\ Last(fetched).hasHosts

====
